---- MODULE Spec2Model ----
(***************************************************************************)
(* Model of src/main.py: the SpinningCube geometry engine (rotation state, *)
(* perspective projection, Bresenham rasterisation) and the render loop of *)
(* ModernTerminalWindow (animate_cube on its own thread, update_dimensions *)
(* and the scheduled display callbacks on the Tk event-dispatch thread).   *)
(*                                                                         *)
(* Angles are kept in micro-radians (integers): 0.05 rad = 50000.          *)
(* The Bresenham error term is kept doubled (err2 = 2*err) so that the     *)
(* code's dx / 2.0 stays an integer.                                       *)
(***************************************************************************)
EXTENDS Integers, Sequences, FiniteSets, TLC

VARIABLES
    \* SpinningCube fields
    running, size, angle_x, angle_y, angle_z,
    \* ModernTerminalWindow fields
    current_width, current_height, frame_count,
    \* the animation thread: its position in animate_cube / render_frame,
    \* the arguments of the render_frame call in progress, the grid that
    \* render_frame is drawing, the number of reads of self.size done by the
    \* projection loop, and animate_cube's local variable canvas
    pc, canvas_width, canvas_height, work, nread, canvas,
    \* the Tk thread: its position, update_dimensions' widget size, the
    \* queue of root.after callbacks, the after(100) timer, the grid last
    \* given to update_cube_display, and the number of <Configure> events
    uiPc, widget, pending, timer, displayed, resizes,
    \* one call of render_frame / draw_line taken alone (SpecFrame, SpecCube,
    \* SpecLine): the call's locals and the character grid it draws on
    rf, ln, raster

cubeVars == <<running, size, angle_x, angle_y, angle_z>>
winVars  == <<current_width, current_height, frame_count>>
loopVars == <<pc, canvas_width, canvas_height, work, nread, canvas>>
uiVars   == <<uiPc, widget, pending, timer, displayed, resizes>>
pureVars == <<rf, ln, raster>>
vars     == <<cubeVars, winVars, loopVars, uiVars, pureVars>>

----------------------------------------------------------------------------
\* Bounds of the model

\* frames the fine-grained render loop may produce
MaxFrames == 2
\* <Configure> events delivered to the root window
MaxResizes == 1
\* root.after callbacks that may wait in the Tk queue
MaxPending == 3

----------------------------------------------------------------------------
\* Program constants

NumVertices == 8
NumEdges == 12
\* SpinningCube(size=20), line 181
InitialSize == 20
\* 2 * math.pi and the per-frame increments, in micro-radians
TwoPi == 6283185
IncX == 50000
IncY == 70000
IncZ == 30000
\* cube_font.measure('M') and cube_font.metrics('linespace') of Courier New 9
CharWidth == 7
CharHeight == 14

\* winfo_width(), winfo_height() of the cube display, in pixels
WidgetSizes == {<<0, 0>>, <<70, 140>>, <<1190, 784>>}

Min(a, b) == IF a < b THEN a ELSE b
Max(a, b) == IF a > b THEN a ELSE b
Abs(a) == IF a < 0 THEN -a ELSE a

\* lines 336-337
OptimalSize(w, h) == Max(10, Min(35, Min(w, h) \div 3))

\* line 332 without the minimum of 40
ClampWidthNoMinimum(widget_width) == widget_width \div CharWidth

\* line 332 and line 333
ClampWidth(widget_width) == Max(40, widget_width \div CharWidth)
ClampHeight(widget_height) == Max(20, widget_height \div CharHeight)

\* the increment without the normalisation of lines 395-397
AdvanceAngleNoWrap(angle, inc) == angle + inc

\* angle += inc; angle %= 2 * math.pi   (lines 390-397)
AdvanceAngle(angle, inc) == (angle + inc) % TwoPi

\* A grid of the render loop, by what has been drawn on it: the dimensions
\* and the values of self.size it was projected with, the edges drawn and
\* the vertices overplotted so far.
NoGrid == [w |-> 0, h |-> 0, scales |-> {}, edges |-> 0, verts |-> 0]
BlankGrid(w, h) == [w |-> w, h |-> h, scales |-> {}, edges |-> 0, verts |-> 0]

NoCall == [pc |-> "none"]

----------------------------------------------------------------------------
\* The geometry engine: SpinningCube (lines 9-139)

\* coordinates of line end points and of projected vertices reach from
\* -RasterReach to RasterReach
RasterReach == 3
\* grids of the rasteriser are 1..MaxDim cells wide and high
MaxDim == 2

\* lines 18-21, vertex i at Vertices[i + 1]
Vertices ==
    << <<-1, -1, -1>>, <<1, -1, -1>>, <<1, 1, -1>>, <<-1, 1, -1>>,
       <<-1, -1, 1>>, <<1, -1, 1>>, <<1, 1, 1>>, <<-1, 1, 1>> >>

\* lines 24-28
Edges ==
    << <<0, 1>>, <<1, 2>>, <<2, 3>>, <<3, 0>>,
       <<4, 5>>, <<5, 6>>, <<6, 7>>, <<7, 4>>,
       <<0, 4>>, <<1, 5>>, <<2, 6>>, <<3, 7>> >>

\* the glyphs of lines 98, 62, 122, 124, 126 and 133, by their role
Blank == " "
DefaultChar == "*"
BackChar == "back"
FrontChar == "front"
LinkChar == "link"
BackVertexChar == "vertex_back"
FrontVertexChar == "vertex_front"

\* lines 121-126
EdgeChar(start, end) ==
    IF start < 4 /\ end < 4 THEN BackChar
    ELSE IF start >= 4 /\ end >= 4 THEN FrontChar
    ELSE LinkChar

\* line 98: canvas_height rows of canvas_width blanks; log is the set of
\* cells <<x, y>> that canvas[y][x] = char has been executed for
BlankCanvas(canvas_w, canvas_h) ==
    [w |-> canvas_w, h |-> canvas_h,
     cells |-> [y \in 0..(canvas_h - 1) |-> [x \in 0..(canvas_w - 1) |-> Blank]],
     log |-> {}]

\* 0 <= y < len(canvas) and 0 <= x < len(canvas[0])   (lines 73, 83, 92, 132)
InBounds(cv, x, y) == 0 <= y /\ y < cv.h /\ 0 <= x /\ x < cv.w

\* canvas[y][x] = char
Store(cv, x, y, char) ==
    [cv EXCEPT !.log = @ \cup {<<x, y>>},
               !.cells = IF y \in DOMAIN @ /\ x \in DOMAIN @[y]
                           THEN [@ EXCEPT ![y][x] = char]
                           ELSE @]

\* Plot without the bounds check
PlotUnchecked(cv, x, y, char) == Store(cv, x, y, char)

\* the guarded write of lines 73-74, 83-84, 92-93 and 132-133
Plot(cv, x, y, char) == IF InBounds(cv, x, y) THEN Store(cv, x, y, char) ELSE cv

\* int(v) of a quotient n / d with d > 0: truncation toward zero
TruncDiv(n, d) == IF n >= 0 THEN n \div d ELSE -((-n) \div d)

\* <<cos, sin>> of an angle; the cube of a fresh SpinningCube has the
\* angles 0 (lines 12-14), and math.cos(0) = 1.0, math.sin(0) = 0.0
CosSin(angle) == CASE angle = 0 -> <<1, 0>>

\* lines 34-50
rotate_point(point, ax, ay, az) ==
    LET x0 == point[1]
        y0 == point[2]
        z0 == point[3]
        cos_x == CosSin(ax)[1]
        sin_x == CosSin(ax)[2]
        y1 == y0 * cos_x - z0 * sin_x
        z1 == y0 * sin_x + z0 * cos_x
        cos_y == CosSin(ay)[1]
        sin_y == CosSin(ay)[2]
        x2 == x0 * cos_y + z1 * sin_y
        z2 == (-x0) * sin_y + z1 * cos_y
        cos_z == CosSin(az)[1]
        sin_z == CosSin(az)[2]
        x3 == x2 * cos_z - y1 * sin_z
        y3 == x2 * sin_z + y1 * cos_z
    IN  <<x3, y3, z2>>

\* project_3d_to_2d rounding to the nearest integer instead of truncating
project_3d_to_2d_rounding(point, scale) ==
    <<TruncDiv(2 * point[1] * 5 * scale + (IF point[1] >= 0 THEN 1 ELSE -1) * (5 + point[3]),
               2 * (5 + point[3])),
      TruncDiv(2 * point[2] * 5 * scale + (IF point[2] >= 0 THEN 1 ELSE -1) * (5 + point[3]),
               2 * (5 + point[3]))>>

\* lines 52-60: factor = 5 / (5 + z); int(x * factor * size), for a point
\* with integer coordinates and z > -5
project_3d_to_2d(point, scale) ==
    <<TruncDiv(point[1] * 5 * scale, 5 + point[3]),
      TruncDiv(point[2] * 5 * scale, 5 + point[3])>>

\* lines 64-71 and 81: the locals of draw_line before its loop
LineStart(x1, y1, x2, y2, char) ==
    LET dx == Abs(x2 - x1)
        dy == Abs(y2 - y1)
    IN  [pc |-> "loop", x1 |-> x1, y1 |-> y1, x2 |-> x2, y2 |-> y2, char |-> char,
         dx |-> dx, dy |-> dy,
         x |-> x1, y |-> y1,
         sx |-> IF x1 < x2 THEN 1 ELSE -1,
         sy |-> IF y1 < y2 THEN 1 ELSE -1,
         err2 |-> IF dx > dy THEN dx ELSE dy,
         steps |-> 0]

\* the loop conditions of lines 72 and 82
LoopRunning(l) == IF l.dx > l.dy THEN l.x # l.x2 ELSE l.y # l.y2

\* StepCursor without the err += dx / err += dy of lines 78 and 88
StepCursorNoErrReset(l) ==
    IF l.dx > l.dy
      THEN LET e == l.err2 - 2 * l.dy
           IN  [l EXCEPT !.y = IF e < 0 THEN @ + l.sy ELSE @,
                         !.err2 = e,
                         !.x = @ + l.sx,
                         !.steps = @ + 1]
      ELSE LET e == l.err2 - 2 * l.dx
           IN  [l EXCEPT !.x = IF e < 0 THEN @ + l.sx ELSE @,
                         !.err2 = e,
                         !.y = @ + l.sy,
                         !.steps = @ + 1]

\* lines 75-79 and 85-89: the cursor and the error term after one iteration
StepCursor(l) ==
    IF l.dx > l.dy
      THEN LET e == l.err2 - 2 * l.dy
           IN  [l EXCEPT !.y = IF e < 0 THEN @ + l.sy ELSE @,
                         !.err2 = IF e < 0 THEN e + 2 * l.dx ELSE e,
                         !.x = @ + l.sx,
                         !.steps = @ + 1]
      ELSE LET e == l.err2 - 2 * l.dx
           IN  [l EXCEPT !.x = IF e < 0 THEN @ + l.sx ELSE @,
                         !.err2 = IF e < 0 THEN e + 2 * l.dy ELSE e,
                         !.y = @ + l.sy,
                         !.steps = @ + 1]

----------------------------------------------------------------------------
\* State after ModernTerminalWindow.__init__ (lines 142-197): the thread is
\* started and stands at the first statement of animate_cube.

\* SpinningCube.__init__ (lines 10-15) as called on line 181
InitCube ==
    /\ running = TRUE
    /\ size = InitialSize
    /\ angle_x = 0 /\ angle_y = 0 /\ angle_z = 0

\* lines 184-187
InitWindow ==
    /\ current_width = 0 /\ current_height = 0 /\ frame_count = 0

\* the thread started on line 409, not yet run
InitThread ==
    /\ pc = "setup"
    /\ canvas_width = 0 /\ canvas_height = 0
    /\ work = NoGrid /\ nread = 0 /\ canvas = NoGrid

\* the Tk thread before mainloop (line 419)
InitTk ==
    /\ uiPc = "idle" /\ widget = <<0, 0>>
    /\ pending = <<>> /\ timer = FALSE
    /\ displayed = NoGrid /\ resizes = 0

Init ==
    /\ InitCube /\ InitWindow /\ InitThread /\ InitTk
    /\ rf = NoCall /\ ln = NoCall /\ raster = NoCall

----------------------------------------------------------------------------
\* The Tk thread

\* the window still exists: root.after can schedule
Alive == uiPc \notin {"closing", "closed"}

\* lines 321-331: read the widget size; return when it is not positive
\* (widget holds update_dimensions' locals while the call is in progress)
update_dimensions_begin(ws) ==
    /\ IF ws[1] > 0 /\ ws[2] > 0
         THEN widget' = ws /\ uiPc' = "ud_width"
         ELSE widget' = <<0, 0>> /\ uiPc' = "idle"

\* lines 314-317: a <Configure> event, of the root window or of a child
on_window_resize(isRoot, ws) ==
    /\ uiPc = "idle"
    /\ resizes < MaxResizes
    /\ resizes' = resizes + 1
    /\ IF isRoot
         THEN update_dimensions_begin(ws)
         ELSE UNCHANGED <<widget, uiPc>>
    /\ UNCHANGED <<cubeVars, winVars, loopVars, pending, timer, displayed, pureVars>>

\* the after(100, self.update_dimensions) of line 373 fires
timer_update_dimensions(ws) ==
    /\ uiPc = "idle"
    /\ timer
    /\ timer' = FALSE
    /\ update_dimensions_begin(ws)
    /\ UNCHANGED <<cubeVars, winVars, loopVars, pending, displayed, resizes, pureVars>>

\* line 332
update_dimensions_width ==
    /\ uiPc = "ud_width"
    /\ current_width' = ClampWidth(widget[1])
    /\ uiPc' = "ud_height"
    /\ UNCHANGED <<cubeVars, current_height, frame_count, loopVars,
                   widget, pending, timer, displayed, resizes, pureVars>>

\* line 333
update_dimensions_height ==
    /\ uiPc = "ud_height"
    /\ current_height' = ClampHeight(widget[2])
    /\ uiPc' = "ud_size"
    /\ UNCHANGED <<cubeVars, current_width, frame_count, loopVars,
                   widget, pending, timer, displayed, resizes, pureVars>>

\* update_dimensions rendering and displaying a frame itself
update_dimensions_size_renders ==
    /\ uiPc = "ud_size"
    /\ size' = OptimalSize(current_width, current_height)
    /\ uiPc' = "idle"
    /\ widget' = <<0, 0>>
    /\ displayed' = [w |-> current_width, h |-> current_height, scales |-> {size'},
                     edges |-> NumEdges, verts |-> NumVertices]
    /\ UNCHANGED <<running, angle_x, angle_y, angle_z, winVars, loopVars,
                   pending, timer, resizes, pureVars>>

\* lines 336-339, with update_size (lines 30-32)
update_dimensions_size ==
    /\ uiPc = "ud_size"
    /\ size' = OptimalSize(current_width, current_height)
    /\ uiPc' = "idle"
    /\ widget' = <<0, 0>>
    /\ UNCHANGED <<running, angle_x, angle_y, angle_z, winVars, loopVars,
                   pending, timer, displayed, resizes, pureVars>>

\* lines 341-350, called by the lambda of line 385: the lambda reads
\* animate_cube's variable canvas when it runs, not when it was made
update_cube_display ==
    /\ uiPc = "idle"
    /\ pending # <<>>
    /\ Head(pending) = "display"
    /\ displayed' = canvas
    /\ pending' = Tail(pending)
    /\ UNCHANGED <<cubeVars, winVars, loopVars, uiPc, widget, timer, resizes, pureVars>>

\* lines 352-365: update_header_info and update_footer_info set label texts
update_info ==
    /\ uiPc = "idle"
    /\ pending # <<>>
    /\ Head(pending) \in {"header", "footer"}
    /\ pending' = Tail(pending)
    /\ UNCHANGED <<cubeVars, winVars, loopVars, uiPc, widget, timer, displayed,
                   resizes, pureVars>>

\* lines 137-139, called by on_closing (line 413)
stop ==
    /\ uiPc = "idle"
    /\ running' = FALSE
    /\ uiPc' = "closing"
    /\ UNCHANGED <<size, angle_x, angle_y, angle_z, winVars, loopVars,
                   widget, pending, timer, displayed, resizes, pureVars>>

\* lines 414-415: root.quit(), root.destroy(); what was scheduled is dropped
on_closing_destroy ==
    /\ uiPc = "closing"
    /\ uiPc' = "closed"
    /\ pending' = <<>>
    /\ timer' = FALSE
    /\ UNCHANGED <<cubeVars, winVars, loopVars, widget, displayed, resizes, pureVars>>

UINext ==
    \/ \E isRoot \in BOOLEAN, ws \in WidgetSizes : on_window_resize(isRoot, ws)
    \/ \E ws \in WidgetSizes : timer_update_dimensions(ws)
    \/ update_dimensions_width
    \/ update_dimensions_height
    \/ update_dimensions_size
    \/ update_cube_display
    \/ update_info
    \/ stop
    \/ on_closing_destroy

----------------------------------------------------------------------------
\* The animation thread: animate_cube (lines 367-404)

\* root.after(0, f) of lines 385-387: it queues f while the window exists and
\* raises once the window is destroyed; between stop() and destroy() of
\* on_closing either can happen.  An exception ends the loop (lines 402-404).
after(callback, next) ==
    \/ /\ uiPc # "closed"
       /\ Len(pending) < MaxPending
       /\ pending' = Append(pending, callback)
       /\ pc' = next
    \/ /\ ~Alive
       /\ pending' = pending
       /\ pc' = "done"

\* line 373, outside the try: an exception here ends the thread
animate_setup ==
    /\ pc = "setup"
    /\ IF uiPc = "closed"
         THEN timer' = timer /\ pc' = "crashed"
         ELSE timer' = TRUE /\ pc' = "while"
    /\ UNCHANGED <<cubeVars, winVars, canvas_width, canvas_height, work, nread,
                   canvas, uiPc, widget, pending, displayed, resizes, pureVars>>

\* the loop of line 375 as while True
animate_while_ignores_flag ==
    /\ pc = "while"
    /\ frame_count < MaxFrames
    /\ pc' = "check_width"
    /\ UNCHANGED <<cubeVars, winVars, canvas_width, canvas_height, work, nread,
                   canvas, uiVars, pureVars>>

\* line 375: while self.cube.running
animate_while ==
    /\ pc = "while"
    /\ IF running
         THEN frame_count < MaxFrames /\ pc' = "check_width"
         ELSE pc' = "done"
    /\ UNCHANGED <<cubeVars, winVars, canvas_width, canvas_height, work, nread,
                   canvas, uiVars, pureVars>>

\* line 377, left operand: self.current_width <= 0
animate_check_width ==
    /\ pc = "check_width"
    /\ pc' = IF current_width <= 0 THEN "wait" ELSE "check_height"
    /\ UNCHANGED <<cubeVars, winVars, canvas_width, canvas_height, work, nread,
                   canvas, uiVars, pureVars>>

\* line 377 testing the width only
animate_check_height_skipped ==
    /\ pc = "check_height"
    /\ pc' = "arg_width"
    /\ UNCHANGED <<cubeVars, winVars, canvas_width, canvas_height, work, nread,
                   canvas, uiVars, pureVars>>

\* line 377, right operand: self.current_height <= 0
animate_check_height ==
    /\ pc = "check_height"
    /\ pc' = IF current_height <= 0 THEN "wait" ELSE "arg_width"
    /\ UNCHANGED <<cubeVars, winVars, canvas_width, canvas_height, work, nread,
                   canvas, uiVars, pureVars>>

\* lines 378-379: time.sleep(0.1); continue
animate_wait ==
    /\ pc = "wait"
    /\ pc' = "while"
    /\ UNCHANGED <<cubeVars, winVars, canvas_width, canvas_height, work, nread,
                   canvas, uiVars, pureVars>>

\* line 382: the first argument, self.current_width, is read
animate_arg_width ==
    /\ pc = "arg_width"
    /\ canvas_width' = current_width
    /\ pc' = "arg_height"
    /\ UNCHANGED <<cubeVars, winVars, canvas_height, work, nread, canvas, uiVars,
                   pureVars>>

\* line 382: the second argument, self.current_height, is read
animate_arg_height ==
    /\ pc = "arg_height"
    /\ canvas_height' = current_height
    /\ pc' = "alloc"
    /\ UNCHANGED <<cubeVars, winVars, canvas_width, work, nread, canvas, uiVars,
                   pureVars>>

\* lines 98-102: a fresh blank grid
render_frame_alloc ==
    /\ pc = "alloc"
    /\ work' = BlankGrid(canvas_width, canvas_height)
    /\ nread' = 0
    /\ pc' = "project"
    /\ UNCHANGED <<cubeVars, winVars, canvas_width, canvas_height, canvas, uiVars,
                   pureVars>>

\* lines 106-112: project_3d_to_2d reads self.size on line 58 and again on
\* line 59, for each of the 8 vertices
render_frame_project ==
    /\ pc = "project"
    /\ work' = [work EXCEPT !.scales = @ \cup {size}]
    /\ nread' = IF nread + 1 = 2 * NumVertices THEN 0 ELSE nread + 1
    /\ pc' = IF nread + 1 = 2 * NumVertices THEN "edges" ELSE "project"
    /\ UNCHANGED <<cubeVars, winVars, canvas_width, canvas_height, canvas, uiVars,
                   pureVars>>

\* lines 115-128: one edge is drawn
render_frame_edge ==
    /\ pc = "edges"
    /\ work' = [work EXCEPT !.edges = @ + 1]
    /\ pc' = IF work.edges + 1 = NumEdges THEN "vertices" ELSE "edges"
    /\ UNCHANGED <<cubeVars, winVars, canvas_width, canvas_height, nread, canvas,
                   uiVars, pureVars>>

\* lines 131-133: one vertex is overplotted
render_frame_vertex ==
    /\ pc = "vertices"
    /\ work' = [work EXCEPT !.verts = @ + 1]
    /\ pc' = IF work.verts + 1 = NumVertices THEN "return" ELSE "vertices"
    /\ UNCHANGED <<cubeVars, winVars, canvas_width, canvas_height, nread, canvas,
                   uiVars, pureVars>>

\* the grid handed to animate_cube before the vertices are overplotted
render_frame_return_early ==
    /\ pc \in {"vertices", "return"}
    /\ canvas' = work
    /\ work' = NoGrid
    /\ canvas_width' = 0 /\ canvas_height' = 0
    /\ pc' = "after_display"
    /\ UNCHANGED <<cubeVars, winVars, nread, uiVars, pureVars>>

\* line 135 and the assignment of line 382: canvas = render_frame(...);
\* the locals of the call are gone
render_frame_return ==
    /\ pc = "return"
    /\ canvas' = work
    /\ work' = NoGrid
    /\ canvas_width' = 0 /\ canvas_height' = 0
    /\ pc' = "after_display"
    /\ UNCHANGED <<cubeVars, winVars, nread, uiVars, pureVars>>

\* line 385
animate_after_display ==
    /\ pc = "after_display"
    /\ after("display", "after_header")
    /\ UNCHANGED <<cubeVars, winVars, canvas_width, canvas_height, work, nread,
                   canvas, uiPc, widget, timer, displayed, resizes, pureVars>>

\* line 386
animate_after_header ==
    /\ pc = "after_header"
    /\ after("header", "after_footer")
    /\ UNCHANGED <<cubeVars, winVars, canvas_width, canvas_height, work, nread,
                   canvas, uiPc, widget, timer, displayed, resizes, pureVars>>

\* line 387
animate_after_footer ==
    /\ pc = "after_footer"
    /\ after("footer", "advance")
    /\ UNCHANGED <<cubeVars, winVars, canvas_width, canvas_height, work, nread,
                   canvas, uiPc, widget, timer, displayed, resizes, pureVars>>

\* lines 390-399
animate_advance ==
    /\ pc = "advance"
    /\ angle_x' = AdvanceAngle(angle_x, IncX)
    /\ angle_y' = AdvanceAngle(angle_y, IncY)
    /\ angle_z' = AdvanceAngle(angle_z, IncZ)
    /\ frame_count' = frame_count + 1
    /\ pc' = "sleep"
    /\ UNCHANGED <<running, size, current_width, current_height, canvas_width,
                   canvas_height, work, nread, canvas, uiVars, pureVars>>

\* line 400: time.sleep(frame_delay)
animate_sleep ==
    /\ pc = "sleep"
    /\ pc' = "while"
    /\ UNCHANGED <<cubeVars, winVars, canvas_width, canvas_height, work, nread,
                   canvas, uiVars, pureVars>>

LoopNext ==
    \/ animate_setup
    \/ animate_while
    \/ animate_check_width
    \/ animate_check_height
    \/ animate_wait
    \/ animate_arg_width
    \/ animate_arg_height
    \/ render_frame_alloc
    \/ render_frame_project
    \/ render_frame_edge
    \/ render_frame_vertex
    \/ render_frame_return
    \/ animate_after_display
    \/ animate_after_header
    \/ animate_after_footer
    \/ animate_advance
    \/ animate_sleep

Next == UINext \/ LoopNext

\* The animation thread is an operating-system thread: it is scheduled as
\* long as it can run.
Spec == Init /\ [][Next]_vars /\ WF_vars(LoopNext)

----------------------------------------------------------------------------
\* The render loop with each handler run to its end without interleaving:
\* the angles and the frame counter are written by the animation thread
\* alone, so the long runs that wrap the angles are taken at this grain.

\* iterations of the loop in SpecLoop
MaxIterations == 215

\* a frame drawn to the end with one value of self.size
WholeFrame(w, h, s) ==
    [w |-> w, h |-> h, scales |-> {s}, edges |-> NumEdges, verts |-> NumVertices]

\* lines 375-400: one iteration of the loop
animate_cube_iteration ==
    /\ pc = "while"
    /\ running
    /\ frame_count < MaxIterations
    /\ IF current_width <= 0 \/ current_height <= 0
         THEN UNCHANGED <<angle_x, angle_y, angle_z, frame_count, canvas, displayed>>
         ELSE /\ canvas' = WholeFrame(current_width, current_height, size)
              /\ displayed' = canvas'
              /\ angle_x' = AdvanceAngle(angle_x, IncX)
              /\ angle_y' = AdvanceAngle(angle_y, IncY)
              /\ angle_z' = AdvanceAngle(angle_z, IncZ)
              /\ frame_count' = frame_count + 1
    /\ UNCHANGED <<running, size, current_width, current_height, pc, canvas_width,
                   canvas_height, work, nread, uiPc, widget, pending, timer,
                   resizes, pureVars>>

\* line 375 with the flag cleared: the loop ends
animate_cube_exit ==
    /\ pc = "while"
    /\ ~running
    /\ pc' = "done"
    /\ UNCHANGED <<cubeVars, winVars, canvas_width, canvas_height, work, nread,
                   canvas, uiVars, pureVars>>

\* lines 319-339: update_dimensions from its first line to its last
update_dimensions(ws) ==
    /\ uiPc = "idle"
    /\ widget' = <<0, 0>>
    /\ IF ws[1] > 0 /\ ws[2] > 0
         THEN /\ current_width' = ClampWidth(ws[1])
              /\ current_height' = ClampHeight(ws[2])
              /\ size' = OptimalSize(current_width', current_height')
         ELSE UNCHANGED <<current_width, current_height, size>>
    /\ UNCHANGED <<running, angle_x, angle_y, angle_z, frame_count, loopVars,
                   uiPc, pending, timer, displayed, resizes, pureVars>>

\* lines 411-415: on_closing from its first line to its last
on_closing ==
    /\ uiPc = "idle"
    /\ running' = FALSE
    /\ uiPc' = "closed"
    /\ pending' = <<>>
    /\ timer' = FALSE
    /\ UNCHANGED <<size, angle_x, angle_y, angle_z, winVars, loopVars, widget,
                   displayed, resizes, pureVars>>

NextLoop ==
    \/ animate_setup
    \/ animate_cube_iteration
    \/ animate_cube_exit
    \/ \E ws \in WidgetSizes : update_dimensions(ws)
    \/ on_closing

SpecLoop == Init /\ [][NextLoop]_vars

----------------------------------------------------------------------------
\* One call of draw_line, step by step, on a blank canvas

Coords == (-RasterReach)..RasterReach
Dims == 1..MaxDim

InitLine ==
    /\ InitCube /\ InitWindow /\ InitThread /\ InitTk
    /\ rf = NoCall
    /\ \E w \in Dims, h \in Dims : raster = BlankCanvas(w, h)
    /\ \E x1 \in Coords, y1 \in Coords, x2 \in Coords, y2 \in Coords :
          ln = LineStart(x1, y1, x2, y2, DefaultChar)

\* one iteration of the loop of lines 72-79 or 82-89
draw_line_step ==
    /\ ln.pc = "loop"
    /\ LoopRunning(ln)
    /\ raster' = Plot(raster, ln.x, ln.y, ln.char)
    /\ ln' = StepCursor(ln)
    /\ UNCHANGED <<cubeVars, winVars, loopVars, uiVars, rf>>

\* the loop ends; lines 92-93 draw the end point
draw_line_end ==
    /\ ln.pc = "loop"
    /\ ~LoopRunning(ln)
    /\ raster' = Plot(raster, ln.x2, ln.y2, ln.char)
    /\ ln' = [ln EXCEPT !.pc = "done"]
    /\ UNCHANGED <<cubeVars, winVars, loopVars, uiVars, rf>>

NextLine == draw_line_step \/ draw_line_end

SpecLine == InitLine /\ [][NextLine]_vars

----------------------------------------------------------------------------
\* One call of render_frame (lines 95-135)

\* lines 98-102
render_frame_canvas ==
    /\ rf.pc = "alloc"
    /\ raster' = BlankCanvas(canvas_width, canvas_height)
    /\ rf' = [rf EXCEPT !.pc = "project"]
    /\ UNCHANGED <<cubeVars, winVars, loopVars, uiVars, ln>>

\* lines 106-112: the next vertex is rotated, projected and centred
render_frame_project_vertex ==
    /\ rf.pc = "project"
    /\ LET i == Len(rf.pv)
           rotated == rotate_point(Vertices[i + 1], angle_x, angle_y, angle_z)
           projected == project_3d_to_2d(rotated, size)
           centered_x == projected[1] + canvas_width \div 2
           centered_y == projected[2] + canvas_height \div 2
       IN  rf' = [rf EXCEPT !.pv = Append(@, <<centered_x, centered_y>>),
                            !.pc = IF i + 1 = NumVertices THEN "draw" ELSE "project"]
    /\ UNCHANGED <<cubeVars, winVars, loopVars, uiVars, ln, raster>>

\* lines 115-128: draw_line is called for the next edge; its loop and its
\* end point are draw_line_step and draw_line_end
render_frame_draw_edge ==
    /\ rf.pc = "draw"
    /\ rf.e < NumEdges
    /\ ln.pc # "loop"
    /\ LET start == Edges[rf.e + 1][1]
           end == Edges[rf.e + 1][2]
           p1 == rf.pv[start + 1]
           p2 == rf.pv[end + 1]
       IN  ln' = LineStart(p1[1], p1[2], p2[1], p2[2], EdgeChar(start, end))
    /\ rf' = [rf EXCEPT !.e = @ + 1]
    /\ UNCHANGED <<cubeVars, winVars, loopVars, uiVars, raster>>

\* the loop of lines 115-128 is over: all edges are drawn
EdgesDone == rf.e = NumEdges /\ ln.pc # "loop"

\* lines 131-133: the next vertex is overplotted
render_frame_plot_vertex ==
    /\ rf.pc = "draw"
    /\ EdgesDone
    /\ rf.v < NumVertices
    /\ LET p == rf.pv[rf.v + 1]
       IN  raster' = Plot(raster, p[1], p[2],
                          IF rf.v >= 4 THEN FrontVertexChar ELSE BackVertexChar)
    /\ rf' = [rf EXCEPT !.v = @ + 1]
    /\ UNCHANGED <<cubeVars, winVars, loopVars, uiVars, ln>>

\* line 135
render_frame_result ==
    /\ rf.pc = "draw"
    /\ EdgesDone
    /\ rf.v = NumVertices
    /\ rf' = [rf EXCEPT !.pc = "done"]
    /\ UNCHANGED <<cubeVars, winVars, loopVars, uiVars, ln, raster>>

\* render_frame from line 114 on, for any projected vertices: each of the 8
\* is one of three points, left of and above the grid, at its first cell,
\* right of and below it
FramePoints == {<<-RasterReach, -1>>, <<0, 0>>, <<RasterReach, 1>>}

InitFrame ==
    /\ InitCube /\ InitWindow /\ InitTk
    /\ pc = "setup" /\ work = NoGrid /\ nread = 0 /\ canvas = NoGrid
    /\ canvas_width \in Dims /\ canvas_height \in Dims
    /\ raster = BlankCanvas(canvas_width, canvas_height)
    /\ \E pv \in [1..NumVertices -> FramePoints] :
          rf = [pc |-> "draw", pv |-> pv, e |-> 0, v |-> 0]
    /\ ln = NoCall

NextFrame ==
    \/ render_frame_draw_edge
    \/ draw_line_step
    \/ draw_line_end
    \/ render_frame_plot_vertex
    \/ render_frame_result

SpecFrame == InitFrame /\ [][NextFrame]_vars

\* render_frame of a cube that has not turned yet (angles 0), for a few
\* scales and grid sizes: <<size, canvas_width, canvas_height>>
CubeInputs ==
    {<<10, 21, 21>>, <<8, 21, 21>>, <<20, 21, 21>>, <<10, 40, 20>>, <<20, 40, 20>>}

InitCubeFrame ==
    /\ running = TRUE
    /\ angle_x = 0 /\ angle_y = 0 /\ angle_z = 0
    /\ InitWindow /\ InitTk
    /\ pc = "setup" /\ work = NoGrid /\ nread = 0 /\ canvas = NoGrid
    /\ \E in \in CubeInputs :
          size = in[1] /\ canvas_width = in[2] /\ canvas_height = in[3]
    /\ rf = [pc |-> "alloc", pv |-> <<>>, e |-> 0, v |-> 0]
    /\ ln = NoCall /\ raster = NoCall

NextCube ==
    \/ render_frame_canvas
    \/ render_frame_project_vertex
    \/ render_frame_draw_edge
    \/ draw_line_step
    \/ draw_line_end
    \/ render_frame_plot_vertex
    \/ render_frame_result

SpecCube == InitCubeFrame /\ [][NextCube]_vars

----------------------------------------------------------------------------
\* Properties of the render loop

\* positions of the animation thread at which no frame is in the making
IdlePcs == {"setup", "while", "check_width", "check_height", "wait", "done", "crashed"}
\* positions inside the render_frame call of line 382
RenderPcs == {"alloc", "project", "edges", "vertices", "return"}
EndPcs == {"done", "crashed"}

Range(q) == {q[i] : i \in DOMAIN q}

\* C1: once stop() has cleared the running flag, the loop starts no new
\* iteration (the body is entered from the test of line 375 only while the
\* flag is set), an ended loop stays ended, and the loop thread ends.
C1_StopEndsLoop ==
    /\ [][~running => (pc' = "check_width" => pc = "check_width")]_vars
    /\ [][(~running /\ pc = "while") => (pc' \in {"while", "done"})]_vars
    /\ [][(pc \in EndPcs) => (pc' = pc)]_vars
    /\ (~running ~> pc \in EndPcs)

\* the flag was cleared, the loop has ended after producing a frame, and a
\* callback of the iteration that was in progress is still queued
C1_Witness ==
    ~running /\ pc = "done" /\ frame_count > 0 /\ pending # <<>>

\* C2 (as claimed): every grid given to the display sink was projected with
\* the single scale max(10, min(35, min(w, h) // 3)) of its own dimensions.
C2_ScaleMatchesViewport ==
    displayed # NoGrid =>
        displayed.scales = {OptimalSize(displayed.w, displayed.h)}

\* C3: while the stored width or height is not positive, a step leaves the
\* loop at a position where no frame is in the making, ends it only when
\* stop was signalled, and changes neither the angles, the frame counter,
\* the loop's grid, the displayed grid nor the queue of display callbacks.
C3_InvalidViewportWaits ==
    [][(current_width <= 0 \/ current_height <= 0) =>
          /\ pc' \in IdlePcs
          /\ (pc' \in EndPcs => ~running')
          /\ UNCHANGED <<angle_x, angle_y, angle_z, frame_count, canvas, displayed>>
          /\ "display" \notin Range(pending')]_vars

\* the width is stored, the height is not yet, and the loop waits
C3_Witness ==
    current_width > 0 /\ current_height <= 0 /\ pc = "wait"

\* C4: the grid the display sink holds, and the grid a queued display
\* callback will read, has all 12 edges and all 8 vertex overplots.
C4_SinkGetsWholeFrames ==
    /\ displayed # NoGrid =>
          displayed.edges = NumEdges /\ displayed.verts = NumVertices
    /\ "display" \in Range(pending) =>
          canvas.edges = NumEdges /\ canvas.verts = NumVertices

\* the sink holds a frame while render_frame is part way through the
\* vertex overplots of the next one
C4_Witness ==
    displayed # NoGrid /\ pc = "vertices" /\ work.verts > 0

\* a step of on_window_resize / update_dimensions
ResizeStep ==
    \/ resizes' # resizes
    \/ uiPc' # uiPc /\ {uiPc, uiPc'} \cap {"ud_width", "ud_height", "ud_size"} # {}

\* C5: a step of a resize notification changes nothing but the stored
\* dimensions and the scale: not the angles, the frame counter, the running
\* flag, the animation thread, the displayed grid or the callback queue.
C5_ResizeOnlyStoresDimensions ==
    [][ResizeStep =>
          UNCHANGED <<running, angle_x, angle_y, angle_z, frame_count, loopVars,
                      displayed, pending>>]_vars

\* update_dimensions is about to store a new scale while the loop, having
\* produced a frame, is drawing the next
C5_Witness ==
    uiPc = "ud_size" /\ frame_count > 0 /\ pc = "edges"
       /\ size # OptimalSize(current_width, current_height)

\* C7: the angles stay in [0, 2*pi) and are the frame counter times the
\* increment, modulo 2*pi.
C7_AnglesFollowFrameCount ==
    /\ 0 <= angle_x /\ angle_x < TwoPi
    /\ 0 <= angle_y /\ angle_y < TwoPi
    /\ 0 <= angle_z /\ angle_z < TwoPi
    /\ angle_x = (frame_count * IncX) % TwoPi
    /\ angle_y = (frame_count * IncY) % TwoPi
    /\ angle_z = (frame_count * IncZ) % TwoPi

\* all three angles have wrapped, after resizes
C7_Witness ==
    /\ frame_count * IncZ >= TwoPi
    /\ angle_x < frame_count * IncX
    /\ angle_y < frame_count * IncY
    /\ angle_z < IncZ
    /\ current_width > 40

\* C9: the stored width is 0 or at least 40, the stored height 0 or at least
\* 20, render_frame is called with at least 40 by 20, and a dimension that
\* is positive stays positive.
C9_Dimensions ==
    /\ [](/\ current_width = 0 \/ current_width >= 40
          /\ current_height = 0 \/ current_height >= 20
          /\ pc \in RenderPcs => canvas_width >= 40 /\ canvas_height >= 20
          /\ work # NoGrid => work.w >= 40 /\ work.h >= 20)
    /\ [][/\ (current_width > 0 => current_width' > 0)
          /\ (current_height > 0 => current_height' > 0)]_vars

\* render_frame is called with the width read before a resize and the
\* height read after it
C9_Witness ==
    pc = "alloc" /\ canvas_width = 40 /\ canvas_height = 56

----------------------------------------------------------------------------
\* Properties of the rasteriser

CellsOf(cv) == (0..(cv.w - 1)) \X (0..(cv.h - 1))
CellsWith(cv, char) == {c \in CellsOf(cv) : cv.cells[c[2]][c[1]] = char}

\* C6: every canvas[y][x] = char of render_frame and draw_line targets a cell
\* of the grid, a cell that is not blank was written, a loop iteration or end
\* point whose pixel is outside the grid leaves the grid as it is, and the
\* grid has canvas_height rows of canvas_width cells.
C6_WritesStayInGrid ==
    /\ [](/\ raster.w = canvas_width /\ raster.h = canvas_height
          /\ DOMAIN raster.cells = 0..(canvas_height - 1)
          /\ \A y \in DOMAIN raster.cells :
                DOMAIN raster.cells[y] = 0..(canvas_width - 1)
          /\ \A c \in raster.log :
                0 <= c[1] /\ c[1] < canvas_width /\ 0 <= c[2] /\ c[2] < canvas_height
          /\ \A c \in CellsOf(raster) :
                raster.cells[c[2]][c[1]] # Blank => c \in raster.log)
    /\ [][(ln.pc = "loop" /\ ~InBounds(raster, ln.x, ln.y)) => (raster' = raster)]_vars

\* a frame is returned that has cells written although a vertex lies
\* outside the grid
C6_Witness ==
    /\ rf.pc = "done"
    /\ raster.log # {}
    /\ \E i \in 1..NumVertices : ~InBounds(raster, rf.pv[i][1], rf.pv[i][2])

\* the concrete scenario of C8: angles (0, 0, 0), scale 10, a 21 x 21 grid,
\* render_frame returned
Scenario ==
    /\ rf.pc = "done"
    /\ angle_x = 0 /\ angle_y = 0 /\ angle_z = 0
    /\ size = 10 /\ canvas_width = 21 /\ canvas_height = 21

\* the smallest and largest of a non-empty set of integers
Least(S) == CHOOSE m \in S : \A n \in S : m <= n
Greatest(S) == CHOOSE m \in S : \A n \in S : m >= n

\* C8 (as claimed): in the scenario the grid holds back-face edge cells and
\* front-face edge cells, and every front-face cell lies strictly inside
\* the square outlined by the back-face cells.
C8_FrontInsideBackCells ==
    Scenario =>
        LET back == CellsWith(raster, BackChar)
            front == CellsWith(raster, FrontChar)
        IN  /\ back # {}
            /\ front # {}
            /\ \A c \in front :
                  /\ Least({b[1] : b \in back}) < c[1]
                  /\ c[1] < Greatest({b[1] : b \in back})
                  /\ Least({b[2] : b \in back}) < c[2]
                  /\ c[2] < Greatest({b[2] : b \in back})

\* C8 (amended): in the scenario the back face is projected onto the square
\* with corners (-2,-2) and (22,22), outside the 21 x 21 grid, and the front
\* face onto the square with corners (2,2) and (18,18), both centred at
\* (10,10); the grid holds no back-face edge cell, and its front-face edge
\* cells are the cells of the front square's sides between its corners,
\* all strictly inside the back face's square.
C8_FrontInsideBackSquare ==
    Scenario =>
        LET back == CellsWith(raster, BackChar)
            front == CellsWith(raster, FrontChar)
        IN  /\ rf.pv = << <<-2, -2>>, <<22, -2>>, <<22, 22>>, <<-2, 22>>,
                          <<2, 2>>, <<18, 2>>, <<18, 18>>, <<2, 18>> >>
            /\ back = {}
            /\ front = {c \in CellsOf(raster) :
                          \/ c[1] \in {2, 18} /\ 2 < c[2] /\ c[2] < 18
                          \/ c[2] \in {2, 18} /\ 2 < c[1] /\ c[1] < 18}
            /\ \A c \in front : -2 < c[1] /\ c[1] < 22 /\ -2 < c[2] /\ c[2] < 22
            /\ CellsWith(raster, FrontVertexChar) =
                  {<<2, 2>>, <<18, 2>>, <<18, 18>>, <<2, 18>>}
            /\ CellsWith(raster, BackVertexChar) = {}

\* the scenario's frame is returned with front-face edge cells on it
C8_Witness ==
    Scenario /\ CellsWith(raster, FrontChar) # {}

\* C10: the stepping loop of draw_line takes max(|x2-x1|, |y2-y1|) steps and
\* ends with its cursor on (x2, y2); the end point, when inside the grid,
\* holds the edge glyph; each step moves the cursor by one cell along the
\* major axis and by at most one along the minor axis.
C10_LineWalk ==
    /\ [](/\ ln.steps <= Max(ln.dx, ln.dy)
          /\ ln.pc = "done" =>
                /\ ln.steps = Max(Abs(ln.x2 - ln.x1), Abs(ln.y2 - ln.y1))
                /\ ln.x = ln.x2 /\ ln.y = ln.y2
                /\ InBounds(raster, ln.x2, ln.y2) =>
                      raster.cells[ln.y2][ln.x2] = ln.char)
    /\ [][(ln.pc = "loop" /\ ln' # ln /\ ln'.pc = "loop") =>
             /\ ln'.steps = ln.steps + 1
             /\ IF ln.dx > ln.dy
                  THEN Abs(ln'.x - ln.x) = 1 /\ Abs(ln'.y - ln.y) <= 1
                  ELSE Abs(ln'.y - ln.y) = 1 /\ Abs(ln'.x - ln.x) <= 1]_vars

\* a slanted line that starts outside the grid has been walked to its end
\* point inside the grid
C10_Witness ==
    /\ ln.pc = "done"
    /\ ln.dx > ln.dy /\ ln.dy > 0
    /\ ~InBounds(raster, ln.x1, ln.y1)
    /\ InBounds(raster, ln.x2, ln.y2)
    /\ ln.steps = RasterReach

====
